---- MODULE Spec2Model ----
(***************************************************************************)
(* Model of the notification core of the CRM backend:                      *)
(*   - the WhatsApp message service (messageService): outbound sendText,   *)
(*     inbound processIncomingMessage, status notifications, the Contact   *)
(*     aggregate, phone normalisation;                                     *)
(*   - the reminder scheduler (recordatorioService) and the reminder       *)
(*     controller (recordatorioController).                                *)
(* Every await of the JavaScript code is a point where another handler may *)
(* run, so a handler is split into one action per stretch between awaits   *)
(* that touch the store.                                                   *)
(***************************************************************************)
EXTENDS Integers, Sequences, FiniteSets, TLC

(***************************************************************************)
(* Bounds of the model.                                                    *)
(***************************************************************************)
NProcs == 2        \* concurrent request handlers of the message service
MaxSends == 4      \* sends started in a behaviour of SendSpec
MaxIngest == 3     \* operations started in a behaviour of IngestSpec
MaxStatusOps == 4  \* operations started in a behaviour of StatusSpec
NMsgIds == 2       \* distinct caller/provider supplied message ids
MaxWebhookOps == 2   \* webhook items handed to the service in one behaviour
MaxBulk == 2         \* recipients of a bulk request below the cap
MaxBulkReqs == 2     \* bulk requests in one behaviour
MaxTpl == 2          \* templates created in one behaviour
MaxTplOps == 3       \* template requests in one behaviour
MaxEv == 3           \* events, series instances included
MaxEvOps == 4        \* event requests in one behaviour
MaxReportOps == 3    \* sends and status reports in one behaviour
MaxNormLen == 3      \* characters of a phone text handed to normalizePhoneNumber
MaxGw == 2           \* sends through the gateway client in one behaviour

(***************************************************************************)
(* Strings that the code inspects character by character are sequences of  *)
(* one-character strings.                                                  *)
(***************************************************************************)
StartsWith(s, p) == Len(s) >= Len(p) /\ SubSeq(s, 1, Len(p)) = p

Substring(s, n) == SubSeq(s, n + 1, Len(s))

\* phoneNumber.replace(/[\s\-\(\)]/g, '')
StripSeparators(s) == SelectSeq(s, LAMBDA c : c \notin {" ", "-", "(", ")"})

normalizePhoneNumber(phoneNumber) ==
  LET stripped == StripSeparators(phoneNumber)
      plus == IF ~StartsWith(stripped, <<"+">>)
              THEN IF StartsWith(stripped, <<"0", "0">>)
                   THEN <<"+">> \o Substring(stripped, 2)
                   ELSE IF StartsWith(stripped, <<"0">>)
                        THEN <<"+", "5", "4">> \o Substring(stripped, 1)
                        ELSE IF ~StartsWith(stripped, <<"5", "4">>)
                             THEN <<"+", "5", "4">> \o stripped
                             ELSE <<"+">> \o stripped
              ELSE stripped
  IN  IF StartsWith(plus, <<"+">>) THEN Substring(plus, 1) ELSE plus

(***************************************************************************)
(* Inputs of the message service.                                          *)
(***************************************************************************)
Procs == 1..NProcs

\* message ids supplied by a caller or by the provider
MsgIds == {<<"id", i>> : i \in 1..NMsgIds}

\* the value of a field that is absent ('' / undefined / null)
NoId == <<>>

\* phone numbers as callers and the gateway write them
RawPhones == { <<"+", "5", "4", " ", "9">>, <<"0", "1", "1">> }

\* message.type values carried by inbound webhooks (sticker is not handled)
InboundTypes == {"text", "sticker"}

\* status strings of status reports, as the provider spells them
ProviderStatuses == {"DELIVERED", "SEEN", "read", "FAILED", "REJECTED", "PENDING"}

\* messageSchema.status / messageSchema.type enums
StatusEnum == {"sent", "delivered", "read", "failed"}

TypeEnum == {"text", "image", "document", "audio", "video", "location",
             "template", "interactive"}

VARIABLES
  messages,     \* WhatsAppMessage collection: set of documents
  contacts,     \* WhatsAppContact collection: set of documents
  h,            \* per handler: the operation in flight and its locals
  retorno,      \* what the operation that returned last returned
  ops,          \* operations started so far (bounded by MaxOps)
  ingestas,     \* per message id: inbound deliveries that returned (history)
  fallidas,     \* per message id: those that returned success: false (history)
  carrera,      \* per message id: two deliveries were in flight at once (history)
  incrementos,  \* per message id: Contact increments its deliveries made (history)
  sumados       \* per message id: Contact increments its sends made (history)

msgVars == <<messages, contacts, h, retorno, ops, ingestas, fallidas, carrera,
            incrementos, sumados>>

Idle == [op |-> "idle", pc |-> "idle", messageId |-> NoId, numero |-> <<>>,
         tipo |-> "text", campo |-> "none", leido |-> -1]

NoReturn == [op |-> "none", messageId |-> NoId, success |-> FALSE, nota |-> "none"]

Ret(op, mid, ok, nota) == [op |-> op, messageId |-> mid, success |-> ok, nota |-> nota]

MsgInit ==
  /\ messages = {}
  /\ contacts = {}
  /\ h = [p \in Procs |-> Idle]
  /\ retorno = NoReturn
  /\ ops = 0
  /\ ingestas = [m \in MsgIds |-> 0]
  /\ fallidas = [m \in MsgIds |-> 0]
  /\ carrera = [m \in MsgIds |-> FALSE]
  /\ incrementos = [m \in MsgIds |-> 0]
  /\ sumados = [m \in MsgIds |-> 0]

(***************************************************************************)
(* Store primitives.                                                       *)
(***************************************************************************)
MessageFindOne(mid) == {d \in messages : d.messageId = mid}

ContactFindOne(phone) == {c \in contacts : c.phoneNumber = phone}

\* schema validation run by Message.create before the insert
MessageValid(doc) ==
  /\ doc.messageId # NoId
  /\ doc.contactNumber # <<>>
  /\ doc.status \in StatusEnum
  /\ doc.type \in TypeEnum

\* a collection without the unique index on messageId
MessageSinIndice(doc) == TRUE

\* the unique index on messageId
MessageUniqueOk(doc) == MessageFindOne(doc.messageId) = {}

\* the unique index on phoneNumber
ContactUniqueOk(phone) == ContactFindOne(phone) = {}

(***************************************************************************)
(* messageService.sendText                                                 *)
(***************************************************************************)
\* uuidv4(): an id no earlier operation was given
uuidv4 == <<"uuid", ops + 1>>

\* lines 16-33: pick the message id, normalise, call the gateway
\* the part sendText, sendTemplate and sendImage share: message id, normalised
\* number, gateway call, and the early return when the gateway reports failure
SendStart(p, op, tipo, to, mid, gatewayOk) ==
  /\ h[p].op = "idle"
  /\ ops' = ops + 1
  /\ LET messageId == IF mid # NoId THEN mid ELSE uuidv4
         normalizedPhone == normalizePhoneNumber(to)
     IN  IF gatewayOk
         THEN /\ h' = [h EXCEPT ![p] = [op |-> op, pc |-> "create",
                                        messageId |-> messageId,
                                        numero |-> normalizedPhone,
                                        tipo |-> tipo,
                                        campo |-> "messagesSent", leido |-> -1]]
              /\ UNCHANGED retorno
         ELSE /\ h' = h
              /\ retorno' = Ret(op, messageId, FALSE, "gateway")
  /\ UNCHANGED <<messages, contacts, ingestas, fallidas, carrera, incrementos, sumados>>

SendTextStart(p, to, mid, gatewayOk) ==
  SendStart(p, "sendText", "text", to, mid, gatewayOk)

SendTemplateStart(p, to, mid, gatewayOk) ==
  SendStart(p, "sendTemplate", "template", to, mid, gatewayOk)

SendImageStart(p, to, mid, gatewayOk) ==
  SendStart(p, "sendImage", "image", to, mid, gatewayOk)

(***************************************************************************)
(* messageService.processIncomingMessage                                   *)
(***************************************************************************)
\* parseWebhookData + lines 238-248: insufficient data, already processed
IncomingStart(p, mid, from, type) ==
  /\ h[p].op = "idle"
  /\ ops' = ops + 1
  /\ IF mid = NoId \/ from = <<>>
     THEN /\ retorno' = Ret("incoming", mid, FALSE, "Datos insuficientes")
          /\ UNCHANGED <<h, ingestas, carrera>>
     ELSE IF MessageFindOne(mid) # {}
          THEN /\ retorno' = Ret("incoming", mid, TRUE, "alreadyProcessed")
               /\ ingestas' = [ingestas EXCEPT ![mid] = @ + 1]
               /\ UNCHANGED <<h, carrera>>
          ELSE /\ h' = [h EXCEPT ![p] = [op |-> "incoming", pc |-> "create",
                                         messageId |-> mid, numero |-> from,
                                         tipo |-> IF type \in {"text", "image", "video",
                                                               "document", "location",
                                                               "interactive"}
                                                  THEN type ELSE "unsupported",
                                         campo |-> "messagesReceived",
                                         leido |-> -1]]
               /\ carrera' = [carrera EXCEPT ![mid] =
                                @ \/ \E q \in Procs \ {p} :
                                        h[q].op = "incoming" /\ h[q].messageId = mid]
               /\ UNCHANGED <<retorno, ingestas>>
  /\ UNCHANGED <<messages, contacts, fallidas, incrementos, sumados>>

\* the document each operation hands to Message.create
NewMessage(p) ==
  [_id |-> Cardinality(messages) + 1,
   messageId |-> h[p].messageId,
   direction |-> IF h[p].op = "incoming" THEN "inbound" ELSE "outbound",
   type |-> h[p].tipo,
   contactNumber |-> h[p].numero,
   status |-> IF h[p].op = "incoming" THEN "received" ELSE "sent"]

\* an operation ends: the handler is free again
Finish(p, ok, nota) ==
  /\ h' = [h EXCEPT ![p] = Idle]
  /\ retorno' = Ret(h[p].op, h[p].messageId, ok, nota)
  /\ ingestas' = IF h[p].op = "incoming"
                 THEN [ingestas EXCEPT ![h[p].messageId] = @ + 1]
                 ELSE ingestas
  /\ fallidas' = IF h[p].op = "incoming" /\ ~ok
                 THEN [fallidas EXCEPT ![h[p].messageId] = @ + 1]
                 ELSE fallidas

\* Message.create (sendText line 36, processIncomingMessage line 311); a
\* rejected create throws into the operation's catch block
MessageCreate(p) ==
  /\ h[p].pc = "create"
  /\ LET doc == NewMessage(p)
     IN  IF ~MessageValid(doc)
         THEN /\ Finish(p, FALSE, "ValidationError")
              /\ UNCHANGED messages
         ELSE IF ~MessageUniqueOk(doc)
              THEN /\ Finish(p, FALSE, "E11000")
                   /\ UNCHANGED messages
              ELSE /\ messages' = messages \cup {doc}
                   /\ h' = [h EXCEPT ![p].pc = "uc_find"]
                   /\ UNCHANGED <<retorno, ingestas, fallidas>>
  /\ UNCHANGED <<contacts, ops, carrera, incrementos, sumados>>

(***************************************************************************)
(* messageService.updateContact                                            *)
(***************************************************************************)
\* lines 573-576: normalise again, read the contact
UpdateContactFind(p) ==
  /\ h[p].pc = "uc_find"
  /\ LET normalizedPhone == normalizePhoneNumber(h[p].numero)
         found == ContactFindOne(normalizedPhone)
     IN  h' = [h EXCEPT ![p].pc = "uc_write",
                        ![p].numero = normalizedPhone,
                        ![p].leido = IF found = {} THEN -1
                                     ELSE (CHOOSE c \in found : TRUE)[h[p].campo]]
  /\ UNCHANGED <<messages, contacts, retorno, ops, ingestas, fallidas, carrera,
                 incrementos, sumados>>

\* the counter value written by lines 580-586: what was read, plus one
NewCounter(leido) == leido + 1

\* history of the messagesSent increments, per caller-supplied message id
Sumado(p) ==
  IF h[p].op # "incoming" /\ h[p].messageId \in MsgIds
  THEN [sumados EXCEPT ![h[p].messageId] = @ + 1]
  ELSE sumados

\* lines 578-609: $set of the summed counter, or Contact.create
UpdateContactWrite(p) ==
  /\ h[p].pc = "uc_write"
  /\ IF h[p].leido >= 0
     THEN /\ contacts' = {IF c.phoneNumber = h[p].numero
                          THEN [c EXCEPT ![h[p].campo] = NewCounter(h[p].leido)]
                          ELSE c : c \in contacts}
          /\ Finish(p, TRUE, "ok")
          /\ incrementos' = IF h[p].op = "incoming"
                            THEN [incrementos EXCEPT ![h[p].messageId] = @ + 1]
                            ELSE incrementos
          /\ sumados' = Sumado(p)
     ELSE IF ~ContactUniqueOk(h[p].numero)
          THEN /\ Finish(p, FALSE, "E11000")
               /\ UNCHANGED <<contacts, incrementos, sumados>>
          ELSE /\ contacts' = contacts \cup
                    {[_id |-> Cardinality(contacts) + 1, phoneNumber |-> h[p].numero,
                      messagesSent |-> IF h[p].campo = "messagesSent" THEN 1 ELSE 0,
                      messagesReceived |-> IF h[p].campo = "messagesReceived"
                                           THEN 1 ELSE 0]}
               /\ Finish(p, TRUE, "ok")
               /\ incrementos' = IF h[p].op = "incoming"
                                 THEN [incrementos EXCEPT ![h[p].messageId] = @ + 1]
                                 ELSE incrementos
               /\ sumados' = Sumado(p)
  /\ UNCHANGED <<messages, ops, carrera>>

(***************************************************************************)
(* messageService.processStatusNotification / updateMessageStatus          *)
(***************************************************************************)
\* status.toLowerCase()
ToLowerCase(s) ==
  CASE s = "DELIVERED" -> "delivered"
    [] s = "SEEN" -> "seen"
    [] s = "FAILED" -> "failed"
    [] s = "REJECTED" -> "rejected"
    [] s = "PENDING" -> "pending"
    [] OTHER -> s

\* the switch of lines 401-415
MapStatus(status) ==
  LET lower == ToLowerCase(status)
  IN  CASE lower = "delivered" -> "delivered"
        [] lower \in {"seen", "read"} -> "read"
        [] lower \in {"failed", "rejected"} -> "failed"
        [] OTHER -> "sent"

\* the same update with upsert: a report for an unknown id inserts a document
updateMessageStatusUpsert(mid, status) ==
  IF \E d \in messages : d.messageId = mid
  THEN {IF d.messageId = mid THEN [d EXCEPT !.status = status] ELSE d : d \in messages}
  ELSE messages \cup {[_id |-> Cardinality(messages) + 1, messageId |-> mid,
                       direction |-> "outbound", type |-> "text",
                       contactNumber |-> <<>>, status |-> status]}

\* findOneAndUpdate({messageId}, {$set: {status, ...}})
updateMessageStatus(mid, status) ==
  {IF d.messageId = mid THEN [d EXCEPT !.status = status] ELSE d : d \in messages}

processStatusNotification(p, mid, status) ==
  /\ h[p].op = "idle"
  /\ ops' = ops + 1
  /\ IF mid = NoId \/ status = ""
     THEN /\ retorno' = Ret("status", mid, FALSE, "Datos insuficientes")
          /\ UNCHANGED messages
     ELSE /\ messages' = updateMessageStatus(mid, MapStatus(status))
          /\ retorno' = IF MessageFindOne(mid) = {}
                        THEN Ret("status", mid, FALSE, "Mensaje no encontrado")
                        ELSE Ret("status", mid, TRUE, "ok")
  /\ UNCHANGED <<contacts, h, ingestas, fallidas, carrera, incrementos, sumados>>

(***************************************************************************)
(* Specifications of the message service.  Each bounds the number of       *)
(* operations a behaviour starts.                                          *)
(***************************************************************************)
\* the steps every send and every ingestion shares
MsgSteps ==
  \/ \E p \in Procs : MessageCreate(p)
  \/ \E p \in Procs : UpdateContactFind(p)
  \/ \E p \in Procs : UpdateContactWrite(p)

\* concurrent outbound sends
SendNext ==
  \/ \E p \in Procs, to \in RawPhones, mid \in MsgIds \cup {NoId}, ok \in BOOLEAN :
       ops < MaxSends /\ SendTextStart(p, to, mid, ok)
  \/ MsgSteps

\* concurrent outbound sends and inbound deliveries
IngestNext ==
  \/ \E p \in Procs, to \in RawPhones, mid \in MsgIds \cup {NoId}, ok \in BOOLEAN :
       ops < MaxIngest /\ SendTextStart(p, to, mid, ok)
  \/ \E p \in Procs, mid \in MsgIds \cup {NoId}, from \in RawPhones, t \in InboundTypes :
       ops < MaxIngest /\ IncomingStart(p, mid, from, t)
  \/ MsgSteps

\* sends, deliveries and status reports handled one at a time
StatusNext ==
  \/ \E to \in RawPhones, mid \in MsgIds \cup {NoId}, ok \in BOOLEAN :
       ops < MaxStatusOps /\ SendTextStart(1, to, mid, ok)
  \/ \E mid \in MsgIds \cup {NoId}, from \in RawPhones, t \in InboundTypes :
       ops < MaxStatusOps /\ IncomingStart(1, mid, from, t)
  \/ \E mid \in MsgIds \cup {NoId}, st \in ProviderStatuses \cup {""} :
       ops < MaxStatusOps /\ processStatusNotification(1, mid, st)
  \/ MsgSteps

(***************************************************************************)
(*                          REMINDER SCHEDULER                             *)
(***************************************************************************)
NRuns == 2         \* scheduler runs that may overlap (cron tick, manual run)
MaxRuns == 3       \* runs that fetch a non-empty batch in one behaviour
MaxRunsOrden == 1  \* the same, in a behaviour of OrdenSpec
MaxRunsCtl == 4    \* the same, in a behaviour of CtlSpec
MaxRunsExc == 2    \* the same, in a behaviour of ExcSpec
NRec == 2          \* reminders created in a behaviour of RecSpec
NRecOrden == 3     \* reminders created in a behaviour of OrdenSpec
MaxTime == 2       \* last instant of the clock
MaxUserOps == 2    \* update / mark / delete requests in one behaviour
MaxFallos == 1     \* store errors injected into save() in one behaviour

\* the retry limit written in procesarRecordatorio
MaxIntentos == 3

Runs == 1..NRuns

EstadoEnum == {"PENDIENTE", "ENVIADO", "FALLIDO", "CANCELADO"}

\* recordatorioSchema.prioridad is a String: the enum values, as strings
BAJA == <<"B", "A", "J", "A">>

MEDIA == <<"M", "E", "D", "I", "A">>

ALTA == <<"A", "L", "T", "A">>

URGENTE == <<"U", "R", "G", "E", "N", "T", "E">>

PrioridadEnum == {BAJA, MEDIA, ALTA, URGENTE}

Letters == <<"A", "B", "C", "D", "E", "F", "G", "H", "I", "J", "K", "L", "M",
             "N", "O", "P", "Q", "R", "S", "T", "U", "V", "W", "X", "Y", "Z">>

CharCode(c) == CHOOSE i \in 1..Len(Letters) : Letters[i] = c

\* the store's comparison of two strings: code unit by code unit
RECURSIVE StrLess(_, _)
StrLess(a, b) ==
  IF a = <<>> THEN b # <<>>
  ELSE IF b = <<>> THEN FALSE
  ELSE IF Head(a) = Head(b) THEN StrLess(Tail(a), Tail(b))
  ELSE CharCode(Head(a)) < CharCode(Head(b))

\* users and clients a recipient may refer to; C has neither e-mail nor phone
Personas == {"A", "B", "C"}

ConDireccion == {"A", "B"}

Dest(ids) == [i \in 1..Len(ids) |-> [id |-> ids[i], notificado |-> FALSE]]

\* request bodies of createRecordatorio
Solicitudes ==
  { [prioridad |-> MEDIA, fechaProgramada |-> 1, tipo |-> "WHATSAPP",
     destinatarios |-> Dest(<<"A", "B">>)],
    [prioridad |-> ALTA, fechaProgramada |-> 1, tipo |-> "EMAIL",
     destinatarios |-> Dest(<<"C">>)],
    [prioridad |-> BAJA, fechaProgramada |-> 2, tipo |-> "NOTIFICACION",
     destinatarios |-> Dest(<<"A">>)] }

\* request bodies that differ in priority and date only
SolicitudesOrden ==
  { [prioridad |-> pr, fechaProgramada |-> f, tipo |-> "NOTIFICACION",
     destinatarios |-> Dest(<<"A">>)] : pr \in PrioridadEnum, f \in 1..2 }

VARIABLES
  recordatorios,  \* Recordatorio collection: set of documents
  creados,        \* reminders created so far; the next _id is creados + 1
  ahora,          \* the clock
  mongooseBound,  \* whether the free identifier `mongoose` of the scheduler
                  \* module resolves (the module does not import it)
  run,            \* per scheduler run: its position, batch and in-memory document
  corridas,       \* runs that fetched a non-empty batch so far
  userOps,        \* controller requests that wrote so far
  fallos,         \* store errors injected so far
  despachos,      \* per reminder: attempts saved by the scheduler (history)
  limpio,         \* per reminder: written only by failed, exception-free,
                  \* non-overlapping attempts of the scheduler (history)
  ultimoEnvio,    \* per reminder, for the attempt saved last: what the channel
                  \* answered (or would have answered) for each recipient
  perdidos,       \* reminders of an aborted batch that the run never processed
  excepcion       \* the exception raised last while a reminder was processed

recVars == <<recordatorios, creados, ahora, mongooseBound, run, corridas, userOps,
            fallos, despachos, limpio, ultimoEnvio, perdidos, excepcion>>

RecIds == 1..NRecOrden

RunIdle == [pc |-> "idle", lote |-> <<>>, doc |-> <<>>, resultado |-> FALSE,
            envios |-> <<>>]

NoExcepcion == [id |-> 0, guardado |-> FALSE, mensaje |-> "none"]

RecInit ==
  /\ recordatorios = {}
  /\ creados = 0
  /\ ahora = 1
  /\ mongooseBound \in BOOLEAN
  /\ run = [r \in Runs |-> RunIdle]
  /\ corridas = 0
  /\ userOps = 0
  /\ fallos = 0
  /\ despachos = [i \in RecIds |-> 0]
  /\ limpio = [i \in RecIds |-> TRUE]
  /\ ultimoEnvio = [i \in RecIds |-> <<>>]
  /\ perdidos = {}
  /\ excepcion = NoExcepcion

FindById(id) == {d \in recordatorios : d._id = id}

ReplaceDoc(d) == {IF e._id = d._id THEN d ELSE e : e \in recordatorios}

(***************************************************************************)
(* recordatorioController                                                  *)
(***************************************************************************)
\* createRecordatorio: the schema defaults estado, intentos, notificado
createRecordatorio(body) ==
  /\ recordatorios' = recordatorios \cup
       {[_id |-> creados + 1,
         estado |-> "PENDIENTE",
         intentos |-> 0,
         mensajeError |-> "none",
         prioridad |-> body.prioridad,
         fechaProgramada |-> body.fechaProgramada,
         tipo |-> body.tipo,
         destinatarios |-> body.destinatarios]}
  /\ creados' = creados + 1
  /\ UNCHANGED <<ahora, mongooseBound, run, corridas, userOps, fallos, despachos,
                 limpio, ultimoEnvio, perdidos, excepcion>>

\* updateRecordatorio with a body that carries estado: findByIdAndUpdate
\* writes it, whatever the stored estado is
updateRecordatorio(id, estado) ==
  /\ FindById(id) # {}
  /\ estado \in EstadoEnum
  /\ recordatorios' = {IF d._id = id THEN [d EXCEPT !.estado = estado] ELSE d :
                         d \in recordatorios}
  /\ userOps' = userOps + 1
  /\ limpio' = [limpio EXCEPT ![id] = FALSE]
  /\ UNCHANGED <<creados, ahora, mongooseBound, run, corridas, fallos, despachos,
                 ultimoEnvio, perdidos, excepcion>>

\* marcarEnviado: ENVIADO and every recipient notified, whatever the estado
marcarEnviado(id) ==
  /\ FindById(id) # {}
  /\ recordatorios' =
       {IF d._id = id
        THEN [d EXCEPT !.estado = "ENVIADO",
                       !.destinatarios = [i \in DOMAIN @ |->
                                            [@[i] EXCEPT !.notificado = TRUE]]]
        ELSE d : d \in recordatorios}
  /\ userOps' = userOps + 1
  /\ limpio' = [limpio EXCEPT ![id] = FALSE]
  /\ UNCHANGED <<creados, ahora, mongooseBound, run, corridas, fallos, despachos,
                 ultimoEnvio, perdidos, excepcion>>

\* deleteRecordatorio: findByIdAndDelete
deleteRecordatorio(id) ==
  /\ FindById(id) # {}
  /\ recordatorios' = {d \in recordatorios : d._id # id}
  /\ userOps' = userOps + 1
  /\ limpio' = [limpio EXCEPT ![id] = FALSE]
  /\ UNCHANGED <<creados, ahora, mongooseBound, run, corridas, fallos, despachos,
                 ultimoEnvio, perdidos, excepcion>>

\* time passes
AdvanceClock ==
  /\ ahora < MaxTime
  /\ ahora' = ahora + 1
  /\ UNCHANGED <<recordatorios, creados, mongooseBound, run, corridas, userOps,
                 fallos, despachos, limpio, ultimoEnvio, perdidos, excepcion>>

(***************************************************************************)
(* recordatorioService.procesarRecordatoriosPendientes                     *)
(***************************************************************************)
\* a find that skips what was tried before
PendientesSinReintento == {d \in recordatorios :
                             /\ d.fechaProgramada <= ahora
                             /\ d.estado = "PENDIENTE"
                             /\ d.intentos = 0}

\* the filter of the find: due and PENDIENTE
Pendientes == {d \in recordatorios :
                 d.fechaProgramada <= ahora /\ d.estado = "PENDIENTE"}

\* sort({prioridad: -1, fechaProgramada: 1}): a sorts strictly before b
SortsBefore(a, b) ==
  \/ StrLess(b.prioridad, a.prioridad)
  \/ a.prioridad = b.prioridad /\ a.fechaProgramada < b.fechaProgramada

\* the orders the sorted find may return: documents that compare equal come
\* in either order
SortedBatches(S) ==
  {q \in [1..Cardinality(S) -> S] :
     /\ \A i, j \in DOMAIN q : i # j => q[i] # q[j]
     /\ \A i, j \in DOMAIN q : i < j => ~SortsBefore(q[j], q[i])}

\* lines 14-25: the find; an empty batch ends the run at once
RunFetch(r) ==
  /\ run[r].pc = "idle"
  /\ Pendientes # {}
  /\ \E lote \in SortedBatches(Pendientes) :
       run' = [run EXCEPT ![r] = [RunIdle EXCEPT !.pc = "dispatch", !.lote = lote]]
  /\ corridas' = corridas + 1
  /\ UNCHANGED <<recordatorios, creados, ahora, mongooseBound, userOps, fallos,
                 despachos, limpio, ultimoEnvio, perdidos, excepcion>>

\* enviarPorEmail / enviarPorSMS / enviarPorWhatsApp: the recipients that have
\* an address are sent to; what each send returns is not looked at
Resueltos(doc) == {i \in DOMAIN doc.destinatarios :
                     doc.destinatarios[i].id \in ConDireccion}

EnviarPorCanal(doc) ==
  IF doc.destinatarios # <<>> /\ ~mongooseBound
  THEN FALSE                      \* ReferenceError in the lookup, caught
  ELSE Resueltos(doc) # {}

\* the switch of lines 57-74
Enviar(doc) ==
  IF doc.tipo \in {"EMAIL", "SMS", "WHATSAPP"} THEN EnviarPorCanal(doc) ELSE FALSE

\* a retry limit that is reached one attempt late
MaxIntentosSuperado(intentos) == intentos > MaxIntentos

\* line 89
MaxIntentosAlcanzado(intentos) == intentos >= MaxIntentos

\* lines 76-98: the in-memory document after the attempt
DespuesDelIntento(doc, resultado) ==
  IF resultado
  THEN [doc EXCEPT !.estado = "ENVIADO",
                   !.destinatarios = [i \in DOMAIN @ |->
                                        [@[i] EXCEPT !.notificado = TRUE]]]
  ELSE IF MaxIntentosAlcanzado(doc.intentos)
       THEN [doc EXCEPT !.estado = "FALLIDO", !.mensajeError = "max"]
       ELSE doc

\* lines 47-98 of procesarRecordatorio, up to the save
RunDispatch(r) ==
  /\ run[r].pc = "dispatch"
  /\ LET snap == Head(run[r].lote)
         doc == [snap EXCEPT !.intentos = @ + 1]
         resultado == Enviar(doc)
         sent == IF doc.tipo \in {"EMAIL", "SMS", "WHATSAPP"}
                 THEN Resueltos(doc) ELSE {}
     IN  \E out \in [sent -> {"ok", "fail"}] :   \* what a send to each would return
           run' = [run EXCEPT ![r].pc = "save",
                              ![r].doc = DespuesDelIntento(doc, resultado),
                              ![r].resultado = resultado,
                              ![r].envios = [i \in DOMAIN doc.destinatarios |->
                                               IF i \in sent THEN out[i] ELSE "none"]]
  /\ UNCHANGED <<recordatorios, creados, ahora, mongooseBound, corridas, userOps,
                 fallos, despachos, limpio, ultimoEnvio, perdidos, excepcion>>

\* document.save(): $set of the paths whose in-memory value differs from the
\* value that was fetched
SaveDoc(stored, snap, doc) ==
  [stored EXCEPT
     !.intentos = IF doc.intentos # snap.intentos THEN doc.intentos ELSE @,
     !.estado = IF doc.estado # snap.estado THEN doc.estado ELSE @,
     !.mensajeError = IF doc.mensajeError # snap.mensajeError
                      THEN doc.mensajeError ELSE @,
     !.destinatarios = [i \in DOMAIN @ |->
                          IF /\ i \in DOMAIN doc.destinatarios
                             /\ doc.destinatarios[i].notificado
                                  # snap.destinatarios[i].notificado
                          THEN [@[i] EXCEPT !.notificado =
                                               doc.destinatarios[i].notificado]
                          ELSE @[i]]]

\* lines 104-111: the catch block's changes to the in-memory document
EnCatch(doc, mensaje) == [doc EXCEPT !.estado = "FALLIDO", !.mensajeError = mensaje]

\* the run moves on to the next reminder of its batch
Avanzar(r) ==
  IF Len(run[r].lote) > 1
  THEN [run EXCEPT ![r] = [RunIdle EXCEPT !.pc = "dispatch",
                                          !.lote = Tail(run[r].lote)]]
  ELSE [run EXCEPT ![r] = RunIdle]

IdsOf(q) == {q[i]._id : i \in DOMAIN q}

\* line 101: the save succeeds
RunSave(r) ==
  /\ run[r].pc = "save"
  /\ LET snap == Head(run[r].lote)
         doc == run[r].doc
         id == snap._id
     IN  /\ FindById(id) # {}
         /\ LET stored == CHOOSE d \in FindById(id) : TRUE
            IN  /\ recordatorios' = ReplaceDoc(SaveDoc(stored, snap, doc))
                /\ limpio' = [limpio EXCEPT ![id] =
                                @ /\ ~run[r].resultado
                                  /\ stored.intentos = snap.intentos]
         /\ despachos' = [despachos EXCEPT ![id] = @ + 1]
         /\ ultimoEnvio' = [ultimoEnvio EXCEPT ![id] = run[r].envios]
  /\ run' = Avanzar(r)
  /\ UNCHANGED <<creados, ahora, mongooseBound, corridas, userOps, fallos, perdidos,
                 excepcion>>

\* line 101 throws a store error, the catch block's save (line 111) succeeds
RunSaveCaught(r) ==
  /\ run[r].pc = "save"
  /\ LET snap == Head(run[r].lote)
         doc == EnCatch(run[r].doc, "store error")
         id == snap._id
     IN  /\ FindById(id) # {}
         /\ LET stored == CHOOSE d \in FindById(id) : TRUE
            IN  recordatorios' = ReplaceDoc(SaveDoc(stored, snap, doc))
         /\ limpio' = [limpio EXCEPT ![id] = FALSE]
         /\ despachos' = [despachos EXCEPT ![id] = @ + 1]
         /\ ultimoEnvio' = [ultimoEnvio EXCEPT ![id] = run[r].envios]
         /\ excepcion' = [id |-> id, guardado |-> TRUE, mensaje |-> "store error"]
  /\ fallos' = fallos + 1
  /\ run' = Avanzar(r)
  /\ UNCHANGED <<creados, ahora, mongooseBound, corridas, userOps, perdidos>>

\* line 101 throws because the document was deleted since the fetch
\* (DocumentNotFoundError); the catch block's save throws the same, the
\* exception leaves procesarRecordatorio and the loop of lines 28-30
RunSaveThrows(r) ==
  /\ run[r].pc = "save"
  /\ LET snap == Head(run[r].lote)
         id == snap._id
     IN  /\ FindById(id) = {}
         /\ excepcion' = [id |-> id, guardado |-> FALSE,
                          mensaje |-> "DocumentNotFoundError"]
         /\ perdidos' = perdidos \cup IdsOf(Tail(run[r].lote))
         /\ limpio' = [limpio EXCEPT ![id] = FALSE]
  /\ run' = [run EXCEPT ![r] = RunIdle]
  /\ UNCHANGED <<recordatorios, creados, ahora, mongooseBound, corridas, userOps,
                 fallos, despachos, ultimoEnvio>>

(***************************************************************************)
(* The HTTP layer in front of the webhook: index.js mounts the rate        *)
(* limiter and the body parser on /api before the router reaches           *)
(* messageController.webhookReceiver.                                      *)
(***************************************************************************)
\* rateLimit({max: 100}) on /api/
RateLimitMax == 100

\* the shapes of a webhook body; noIterable is {statuses: true}
WebhookShapes == {"statuses", "messages", "resultsMessage", "resultsStatus",
                  "resultsOther", "none", "noIterable"}

VARIABLES
  hits,        \* requests the limiter counted in the current window
  respuesta,   \* the response to the webhook POST answered last
  webhook      \* position of webhookReceiver: "idle" or "awaiting" a service call

httpVars == <<hits, respuesta, webhook>>

NoRespuesta == [status |-> 0, body |-> "none"]

HttpInit ==
  /\ hits = 0
  /\ respuesta = NoRespuesta
  /\ webhook = "idle"

\* the limiter answers a request beyond max with 429 and its message
LimiterRejects == hits + 1 > RateLimitMax

\* a POST that does not reach the handler: the limiter answers 429, or
\* express.json({limit: '10kb'}) raises 413 into the error middleware
WebhookRejected(grande) ==
  /\ webhook = "idle"
  /\ LimiterRejects \/ grande
  /\ hits' = IF LimiterRejects THEN hits ELSE hits + 1
  /\ respuesta' = IF LimiterRejects
                  THEN [status |-> 429, body |-> "Demasiadas solicitudes"]
                  ELSE [status |-> 413, body |-> "request entity too large"]
  /\ UNCHANGED <<webhook, msgVars>>

\* webhookReceiver on a body that carries no item to hand to the service:
\* neither key (200 received) or a statuses value that cannot be iterated
\* (TypeError, caught at line 226, 200 error)
WebhookSinItems(shape) ==
  /\ webhook = "idle"
  /\ ~LimiterRejects
  /\ shape \in {"none", "resultsOther", "noIterable"}
  /\ hits' = hits + 1
  /\ respuesta' = IF shape = "noIterable"
                  THEN [status |-> 200, body |-> "error"]
                  ELSE [status |-> 200, body |-> "received"]
  /\ UNCHANGED <<webhook, msgVars>>

\* webhookReceiver lines 203-222 on a body with one item: the service call
\* is started and awaited
WebhookItem(shape, mid, from, type, st) ==
  /\ webhook = "idle"
  /\ ~LimiterRejects
  /\ hits' = hits + 1
  /\ webhook' = "awaiting"
  /\ UNCHANGED respuesta
  /\ \/ /\ shape \in {"statuses", "resultsStatus"}
        /\ processStatusNotification(1, mid, st)
     \/ /\ shape \in {"messages", "resultsMessage"}
        /\ IncomingStart(1, mid, from, type)

\* line 225: the awaited service call has returned (it catches its own errors)
WebhookRespond ==
  /\ webhook = "awaiting"
  /\ h[1].op = "idle"
  /\ webhook' = "idle"
  /\ respuesta' = [status |-> 200, body |-> "received"]
  /\ UNCHANGED <<hits, msgVars>>

\* the limiter's window (windowMs) ends
LimiterWindowReset ==
  /\ hits > 0
  /\ hits' = 0
  /\ UNCHANGED <<respuesta, webhook, msgVars>>

(***************************************************************************)
(* messageController.sendBulkTextMessage / sendBulkTemplateMessage         *)
(***************************************************************************)
\* numbers.length > 100
BulkCap == 100

\* a recipient that is not a string (a JSON number): to.replace throws
NoEsTexto == <<"NaN">>

BulkDestinos == RawPhones \cup {NoEsTexto}

RECURSIVE SeqsUpTo(_, _)
SeqsUpTo(S, n) ==
  IF n = 0 THEN {<<>>}
  ELSE LET shorter == SeqsUpTo(S, n - 1)
       IN  shorter \cup {Append(q, x) : q \in {r \in shorter : Len(r) = n - 1}, x \in S}

\* the numbers arrays of the requests: short ones, and one above the cap
BulkNumbers ==
  SeqsUpTo(BulkDestinos, MaxBulk) \cup {[i \in 1..(BulkCap + 1) |-> <<"0", "1", "1">>]}

VARIABLES
  bulk,         \* the bulk request in progress or answered last
  bulkReqs      \* bulk requests received so far

bulkVars == <<bulk, bulkReqs>>

NoBulk == [pc |-> "idle", kind |-> "none", numbers |-> <<>>, pos |-> 0,
           results |-> <<>>, successCount |-> 0, failCount |-> 0, status |-> 0,
           orden |-> <<>>, llamadas |-> 0, escrituras |-> 0]

BulkInit ==
  /\ bulk = NoBulk
  /\ bulkReqs = 0

\* a cap that lets one recipient too many through
ExcedeCupoLaxo(numbers) == Len(numbers) > BulkCap + 1

\* lines 502 / 605
ExcedeCupo(numbers) == Len(numbers) > BulkCap

\* lines 491-509: validation; orden, llamadas and escrituras are history
BulkRequest(kind, numbers, conTexto) ==
  /\ bulk.pc = "idle"
  /\ h[1].op = "idle"
  /\ bulkReqs' = bulkReqs + 1
  /\ LET req == [NoBulk EXCEPT !.kind = kind, !.numbers = numbers]
     IN  bulk' = IF Len(numbers) = 0 \/ ~conTexto \/ ExcedeCupo(numbers)
                 THEN [req EXCEPT !.status = 400]
                 ELSE [req EXCEPT !.pc = "loop", !.pos = 1]
  /\ UNCHANGED msgVars

\* a loop that stops at the first failure
SiguientePosAborta(pos, ok, n) == IF ok THEN pos + 1 ELSE n + 1

\* the loop goes on to the next recipient whatever the result was
SiguientePos(pos, ok, n) == pos + 1

\* one result entry, one counter
Anotar(b, to, ok) ==
  [b EXCEPT !.results = Append(@, [to |-> to, success |-> ok]),
            !.successCount = IF ok THEN @ + 1 ELSE @,
            !.failCount = IF ok THEN @ ELSE @ + 1,
            !.pos = SiguientePos(@, ok, Len(b.numbers)),
            !.pc = "loop"]

\* lines 524-533 / 627-639: the service call for the next recipient
BulkSend(gatewayOk) ==
  /\ bulk.pc = "loop"
  /\ bulk.pos <= Len(bulk.numbers)
  /\ LET to == bulk.numbers[bulk.pos]
     IN  /\ to # NoEsTexto
         /\ IF bulk.kind = "text"
            THEN SendTextStart(1, to, NoId, gatewayOk)
            ELSE SendTemplateStart(1, to, NoId, gatewayOk)
         /\ bulk' = [bulk EXCEPT !.pc = "await", !.orden = Append(@, to),
                                 !.llamadas = @ + 1]
  /\ UNCHANGED bulkReqs

\* a recipient that is not a string: to.replace throws at line 528 into the
\* catch of line 556; normalizePhoneNumber throws inside sendTemplate, which
\* returns a failure.  No gateway call is made.
BulkThrow ==
  /\ bulk.pc = "loop"
  /\ bulk.pos <= Len(bulk.numbers)
  /\ bulk.numbers[bulk.pos] = NoEsTexto
  /\ bulk' = Anotar([bulk EXCEPT !.orden = Append(@, NoEsTexto)], NoEsTexto, FALSE)
  /\ UNCHANGED <<bulkReqs, msgVars>>

\* the service call proceeds
BulkService ==
  /\ bulk.pc = "await"
  /\ \/ MessageCreate(1)
     \/ UpdateContactFind(1)
     \/ UpdateContactWrite(1)
  /\ bulk' = [bulk EXCEPT !.escrituras =
                IF messages' # messages \/ contacts' # contacts THEN @ + 1 ELSE @]
  /\ UNCHANGED bulkReqs

\* lines 535-555: the service call returned
BulkCollect ==
  /\ bulk.pc = "await"
  /\ h[1].op = "idle"
  /\ bulk' = Anotar(bulk, bulk.numbers[bulk.pos], retorno.success)
  /\ UNCHANGED <<bulkReqs, msgVars>>

\* lines 571-577
BulkRespond ==
  /\ bulk.pc = "loop"
  /\ bulk.pos > Len(bulk.numbers)
  /\ bulk' = [bulk EXCEPT !.pc = "idle", !.status = 200]
  /\ UNCHANGED <<bulkReqs, msgVars>>

(***************************************************************************)
(* templateController: createTemplate, updateTemplate, deleteTemplate,     *)
(* syncTemplates over the WhatsAppTemplate collection.                     *)
(***************************************************************************)
TplNames == {"promo", "aviso"}

TplStatusEnum == {"PENDING", "APPROVED", "REJECTED"}

TplCategoryEnum == {"MARKETING", "UTILITY", "AUTHENTICATION", "ACCOUNT_UPDATE",
                    "PAYMENT_UPDATE"}

\* components arrays, as opaque values; "roto" has a component whose type is
\* outside the schema enum
TplComponents == {"c1", "c2", "roto"}

Locales == {"L1", "L2"}

\* the callers the routes let through: isAdmin accepts admin and superAdmin
Callers == {[role |-> "superAdmin", local |-> "none"]}
           \cup {[role |-> "admin", local |-> l] : l \in Locales}

Ausente == "absent"

\* bodies of PUT /:templateId: each field present or absent
UpdateBodies ==
  [name : {"aviso", Ausente},
   components : {"c2", "roto", Ausente},
   category : {"MARKETING", Ausente},
   status : {"APPROVED", Ausente}]

\* the entries of the provider's template list
ProviderEntries ==
  [name : TplNames, status : {"APPROVED", "PENDING"}, rejectionReason : {Ausente}]
  \cup [name : TplNames, status : {"REJECTED"}, rejectionReason : {"motivo", Ausente}]

\* provider lists: no name twice (the language is always 'es' here)
ProviderListsShort == {<<>>} \cup {<<e>> : e \in ProviderEntries}

ProviderLists ==
  ProviderListsShort
  \cup {q \in {<<e, f>> : e \in ProviderEntries, f \in ProviderEntries} :
          q[1].name # q[2].name}

VARIABLES
  templates,    \* WhatsAppTemplate collection
  tplCreados,   \* templates created so far (gives _id)
  tplOps,       \* template requests received so far
  upd,          \* updateTemplate in flight, between findById and findByIdAndUpdate
  sync,         \* syncTemplates in flight
  ultimaAct,    \* history: the updateTemplate request answered last
  ultimoBorrado,\* history: the deleteTemplate request answered last
  syncHecha     \* history: provider list and collection when the last sync answered

tplVars == <<templates, tplCreados, tplOps, upd, sync, ultimaAct, ultimoBorrado,
            syncHecha>>

NoUpd == [pc |-> "idle", id |-> 0, body |-> <<>>, antes |-> <<>>]

NoSync == [pc |-> "idle", lista |-> <<>>, todos |-> <<>>]

NoAct == [eraAprobada |-> FALSE, cambiaNombre |-> FALSE, conContenido |-> FALSE,
          valido |-> FALSE, status |-> 0, intacta |-> TRUE, queda |-> "none"]

NoBorrado == [id |-> 0, role |-> "none", eraAprobada |-> FALSE, status |-> 0,
              queda |-> FALSE]

NoSyncHecha == [status |-> 0, lista |-> <<>>, locales |-> {}]

TplInit ==
  /\ templates = {}
  /\ tplCreados = 0
  /\ tplOps = 0
  /\ upd = NoUpd
  /\ sync = NoSync
  /\ ultimaAct = NoAct
  /\ ultimoBorrado = NoBorrado
  /\ syncHecha = NoSyncHecha

TemplateFindById(id) == {t \in templates : t._id = id}

TemplateFindOne(name, language) ==
  {t \in templates : t.name = name /\ t.language = language}

\* schema validation of the paths a write sets
TemplateValid(doc) ==
  /\ doc.category \in TplCategoryEnum
  /\ doc.components # "roto"
  /\ doc.status \in TplStatusEnum

\* the unique index on (name, language)
TemplateUniqueOk(doc) ==
  \A t \in templates :
    (t.name = doc.name /\ t.language = doc.language) => t._id = doc._id

\* createTemplate: PENDING, with the caller's local for an admin that has one
createTemplate(caller, name, category, components, local) ==
  /\ tplOps' = tplOps + 1
  /\ LET doc == [_id |-> tplCreados + 1, name |-> name, language |-> "es",
                 category |-> category, components |-> components,
                 status |-> "PENDING", rejectionReason |-> Ausente,
                 local |-> IF caller.role = "admin" /\ caller.local # "none"
                           THEN caller.local ELSE local]
     IN  IF TemplateFindOne(name, "es") = {} /\ TemplateValid(doc)
         THEN /\ templates' = templates \cup {doc}
              /\ tplCreados' = tplCreados + 1
         ELSE UNCHANGED <<templates, tplCreados>>
  /\ UNCHANGED <<upd, sync, ultimaAct, ultimoBorrado, syncHecha>>

\* lines 207-210: an edit of content or category forces PENDING
UpdateDataSinReset(body) == body

UpdateData(body) ==
  IF body.components # Ausente \/ body.category # Ausente
  THEN [body EXCEPT !.status = "PENDING"]
  ELSE body

\* $set of the fields the body carries
ApplySet(doc, data) ==
  [doc EXCEPT !.name = IF data.name # Ausente THEN data.name ELSE @,
              !.components = IF data.components # Ausente THEN data.components ELSE @,
              !.category = IF data.category # Ausente THEN data.category ELSE @,
              !.status = IF data.status # Ausente THEN data.status ELSE @]

\* line 200: the name of an approved template cannot change
RenombraAprobada(t, body) ==
  t.status = "APPROVED" /\ body.name # Ausente /\ body.name # t.name

\* history of an update: what the template was when the handler read it, what
\* the body asked for, the answer, and what the handler's own write left
Historia(t, body, code, despues) ==
  [eraAprobada |-> t.status = "APPROVED",
   cambiaNombre |-> body.name # Ausente /\ body.name # t.name,
   conContenido |-> body.components # Ausente \/ body.category # Ausente,
   valido |-> body.components # "roto",
   status |-> code,
   intacta |-> despues = t,
   queda |-> IF despues = <<>> THEN "gone" ELSE despues.status]

\* updateTemplate lines 173-205: findById and the checks
UpdateTemplateFind(caller, id, body) ==
  /\ upd.pc = "idle"
  /\ tplOps' = tplOps + 1
  /\ IF TemplateFindById(id) = {}
     THEN /\ ultimaAct' = [NoAct EXCEPT !.status = 404]
          /\ UNCHANGED upd
     ELSE LET t == CHOOSE x \in TemplateFindById(id) : TRUE
          IN  IF /\ caller.role = "admin" /\ caller.local # "none"
                 /\ t.local # "none" /\ caller.local # t.local
              THEN /\ ultimaAct' = Historia(t, body, 403, t)
                   /\ UNCHANGED upd
              ELSE IF RenombraAprobada(t, body)
                   THEN /\ ultimaAct' = Historia(t, body, 400, t)
                        /\ UNCHANGED upd
                   ELSE /\ upd' = [pc |-> "write", id |-> id, body |-> body,
                                   antes |-> t]
                        /\ UNCHANGED ultimaAct
  /\ UNCHANGED <<templates, tplCreados, sync, ultimoBorrado, syncHecha>>

\* updateTemplate lines 207-233: findByIdAndUpdate with runValidators
UpdateTemplateWrite ==
  /\ upd.pc = "write"
  /\ upd' = NoUpd
  /\ LET stored == TemplateFindById(upd.id)
         res(despues, code) == Historia(upd.antes, upd.body, code, despues)
     IN  IF stored = {}
         THEN /\ ultimaAct' = res(<<>>, 200)
              /\ UNCHANGED templates
         ELSE LET t == CHOOSE x \in stored : TRUE
                  doc == ApplySet(t, UpdateData(upd.body))
              IN  IF TemplateValid(doc) /\ TemplateUniqueOk(doc)
                  THEN /\ templates' = (templates \ {t}) \cup {doc}
                       /\ ultimaAct' = res(doc, 200)
                  ELSE /\ ultimaAct' = res(t, 500)
                       /\ UNCHANGED templates
  /\ UNCHANGED <<tplCreados, tplOps, sync, ultimoBorrado, syncHecha>>

\* deleteTemplate: the permission checks of lines 252-273, then
\* findByIdAndDelete
deleteTemplate(caller, id) ==
  /\ tplOps' = tplOps + 1
  /\ IF TemplateFindById(id) = {}
     THEN /\ ultimoBorrado' = [NoBorrado EXCEPT !.id = id, !.role = caller.role,
                                                !.status = 404]
          /\ UNCHANGED templates
     ELSE LET t == CHOOSE x \in TemplateFindById(id) : TRUE
              code == IF caller.role = "admin"
                      THEN IF t.status = "APPROVED" THEN 403
                           ELSE IF caller.local = "none" THEN 403
                           ELSE IF t.local = "none" THEN 500
                           ELSE IF t.local # caller.local THEN 403 ELSE 200
                      ELSE IF caller.role # "superAdmin" THEN 403 ELSE 200
          IN  /\ templates' = IF code = 200 THEN templates \ {t} ELSE templates
              /\ ultimoBorrado' = [id |-> id, role |-> caller.role,
                                   eraAprobada |-> t.status = "APPROVED",
                                   status |-> code, queda |-> code # 200]
  /\ UNCHANGED <<tplCreados, upd, sync, ultimaAct, syncHecha>>

\* syncTemplates lines 293-316: the provider's list, or its failure
SyncStart(gatewayOk, lista) ==
  /\ sync.pc = "idle"
  /\ tplOps' = tplOps + 1
  /\ IF gatewayOk
     THEN /\ sync' = [pc |-> "find", lista |-> lista, todos |-> lista]
          /\ UNCHANGED syncHecha
     ELSE /\ syncHecha' = [status |-> 500, lista |-> lista, locales |-> templates]
          /\ UNCHANGED sync
  /\ UNCHANGED <<templates, tplCreados, upd, ultimaAct, ultimoBorrado>>

\* lines 321-324: Template.findOne for the next provider template
SyncFind ==
  /\ sync.pc = "find"
  /\ sync.lista # <<>>
  /\ LET found == TemplateFindOne(Head(sync.lista).name, "es")
     IN  sync' = [pc |-> "write", lista |-> sync.lista, todos |-> sync.todos,
                  existente |-> IF found = {} THEN 0
                                ELSE (CHOOSE x \in found : TRUE)._id]
  /\ UNCHANGED <<templates, tplCreados, tplOps, upd, ultimaAct, ultimoBorrado,
                 syncHecha>>

\* lines 326-337: what the sync writes into an existing template
SyncActualiza(t, prov) ==
  [t EXCEPT !.status = IF prov.status = "REJECTED" THEN "REJECTED" ELSE "APPROVED",
            !.rejectionReason = IF prov.status = "REJECTED"
                                THEN IF prov.rejectionReason # Ausente
                                     THEN prov.rejectionReason
                                     ELSE "Rechazada por el proveedor"
                                ELSE @]

\* lines 341-352: the template the sync creates
SyncCrea(prov) ==
  [_id |-> tplCreados + 1, name |-> prov.name, language |-> "es",
   category |-> "UTILITY", components |-> "vacio",
   status |-> IF prov.status = "APPROVED" THEN "APPROVED" ELSE "REJECTED",
   rejectionReason |-> prov.rejectionReason, local |-> "none"]

\* lines 326-354: save or create; a store error ends the sync with 500
SyncWrite ==
  /\ sync.pc = "write"
  /\ LET prov == Head(sync.lista)
         sigue == [pc |-> "find", lista |-> Tail(sync.lista), todos |-> sync.todos]
         falla == /\ sync' = NoSync
                  /\ syncHecha' = [status |-> 500, lista |-> sync.todos,
                                   locales |-> templates]
                  /\ UNCHANGED <<templates, tplCreados>>
     IN  IF sync.existente # 0
         THEN IF TemplateFindById(sync.existente) = {}
              THEN falla
              ELSE LET t == CHOOSE x \in TemplateFindById(sync.existente) : TRUE
                   IN  /\ templates' = (templates \ {t}) \cup {SyncActualiza(t, prov)}
                       /\ sync' = sigue
                       /\ UNCHANGED <<tplCreados, syncHecha>>
         ELSE IF ~TemplateUniqueOk(SyncCrea(prov))
              THEN falla
              ELSE /\ templates' = templates \cup {SyncCrea(prov)}
                   /\ tplCreados' = tplCreados + 1
                   /\ sync' = sigue
                   /\ UNCHANGED syncHecha
  /\ UNCHANGED <<tplOps, upd, ultimaAct, ultimoBorrado>>

\* lines 357-365
SyncRespond ==
  /\ sync.pc = "find"
  /\ sync.lista = <<>>
  /\ sync' = NoSync
  /\ syncHecha' = [status |-> 200, lista |-> sync.todos, locales |-> templates]
  /\ UNCHANGED <<templates, tplCreados, tplOps, upd, ultimaAct, ultimoBorrado>>

(***************************************************************************)
(* infobipService behind messageService: the outcome of the gateway call.  *)
(***************************************************************************)
\* what a send function of infobipService can do: post and succeed, post and
\* fail, or return at once because INFOBIP_API_KEY / WHATSAPP_PHONE_NUMBER is
\* missing
GatewayOutcomes == {"ok", "error", "sinCredenciales"}

VARIABLES
  gw,     \* per handler: how many sends it started, and the last gateway outcome
  red     \* infobipClient.post calls made so far

gwVars == <<gw, red>>

GwInit ==
  /\ gw = [p \in Procs |-> [n |-> 0, res |-> "none"]]
  /\ red = 0

ResultSuccessSiempre(g) == TRUE

\* result.success of infobipService.sendTextMessage / sendTemplateMessage /
\* sendImageMessage
ResultSuccess(g) == g = "ok"

\* the post is reached only past the credentials check
PostCalls(g) == IF g = "sinCredenciales" THEN 0 ELSE 1

\* a send of messageService with the gateway client's outcome spelled out
SendVia(p, tipo, to, mid, g) ==
  /\ \/ tipo = "text" /\ SendTextStart(p, to, mid, ResultSuccess(g))
     \/ tipo = "template" /\ SendTemplateStart(p, to, mid, ResultSuccess(g))
     \/ tipo = "image" /\ SendImageStart(p, to, mid, ResultSuccess(g))
  /\ gw' = [gw EXCEPT ![p] = [n |-> @.n + 1, res |-> g]]
  /\ red' = red + PostCalls(g)

(***************************************************************************)
(* eventoController: events, recurring series and the reminders that       *)
(* reference them.                                                         *)
(***************************************************************************)
NoEvento == 0

VARIABLES
  eventos,       \* Evento collection: _id, recurrencia.activa, .eventoOriginal
  evRecs,        \* the Recordatorio documents that carry an evento reference
  evCreados,     \* events created so far (gives _id)
  evRecCreados,  \* reminders created for events so far (gives _id)
  evOps,         \* event requests received so far
  del,           \* deleteEvento in flight
  ultimoDelete   \* the deleteEvento answered last

evVars == <<eventos, evRecs, evCreados, evRecCreados, evOps, del, ultimoDelete>>

NoDel == [pc |-> "idle", id |-> NoEvento, serie |-> FALSE, idOriginal |-> NoEvento,
          borrados |-> {}]

NoDelete == [status |-> 0, serie |-> FALSE, borrados |-> {}, huerfanos |-> {}]

EvInit ==
  /\ eventos = {}
  /\ evRecs = {}
  /\ evCreados = 0
  /\ evRecCreados = 0
  /\ evOps = 0
  /\ del = NoDel
  /\ ultimoDelete = NoDelete

EventoFindById(id) == {e \in eventos : e._id = id}

\* generarEventosRecurrentes: n further occurrences, each a copy of the
\* original with a new _id and recurrencia.eventoOriginal set
generarEventosRecurrentes(original, n) ==
  {[_id |-> original._id + k, activa |-> TRUE, eventoOriginal |-> original._id] :
     k \in 1..n}

\* createEvento: the event, its scheduled reminders when the body lists
\* recordatorios, and the occurrences of a recurring event
createEvento(activa, n, conRecordatorios) ==
  LET nuevoEvento == [_id |-> evCreados + 1, activa |-> activa,
                      eventoOriginal |-> NoEvento]
      instancias == IF activa THEN generarEventosRecurrentes(nuevoEvento, n) ELSE {}
  IN  /\ evOps' = evOps + 1
      /\ eventos' = eventos \cup {nuevoEvento} \cup instancias
      /\ evCreados' = evCreados + 1 + Cardinality(instancias)
      /\ IF conRecordatorios
         THEN /\ evRecs' = evRecs \cup {[_id |-> evRecCreados + 1,
                                         evento |-> nuevoEvento._id]}
              /\ evRecCreados' = evRecCreados + 1
         ELSE UNCHANGED <<evRecs, evRecCreados>>
      /\ UNCHANGED <<del, ultimoDelete>>

\* actualizarRecordatoriosEvento: the event's reminders are replaced
actualizarRecordatoriosEvento(eventoId) ==
  /\ evRecs' = {r \in evRecs : r.evento # eventoId}
               \cup {[_id |-> evRecCreados + 1, evento |-> eventoId]}
  /\ evRecCreados' = evRecCreados + 1

\* updateEvento of one event (no actualizarSerie) with a body that lists
\* recordatorios and fechaInicio
updateEvento(id) ==
  /\ evOps' = evOps + 1
  /\ IF EventoFindById(id) = {}
     THEN UNCHANGED <<evRecs, evRecCreados>>
     ELSE actualizarRecordatoriosEvento(id)
  /\ UNCHANGED <<eventos, evCreados, del, ultimoDelete>>

\* deleteEvento lines 335-352: findById, 404, the series branch
DeleteEventoFind(id, eliminarSerie) ==
  /\ del.pc = "idle"
  /\ evOps' = evOps + 1
  /\ IF EventoFindById(id) = {}
     THEN /\ ultimoDelete' = [NoDelete EXCEPT !.status = 404]
          /\ UNCHANGED del
     ELSE LET evento == CHOOSE e \in EventoFindById(id) : TRUE
              serie == evento.activa /\ eliminarSerie
          IN  /\ del' = [pc |-> "eventos", id |-> id, serie |-> serie,
                         idOriginal |-> IF evento.eventoOriginal # NoEvento
                                        THEN evento.eventoOriginal ELSE evento._id,
                         borrados |-> {}]
              /\ UNCHANGED ultimoDelete
  /\ UNCHANGED <<eventos, evRecs, evCreados, evRecCreados>>

\* the events a series deletion removes (lines 354-359)
SerieDe(idOriginal) ==
  {e \in eventos : e._id = idOriginal \/ e.eventoOriginal = idOriginal}

\* lines 354-359 and 371: Evento.deleteMany or Evento.findByIdAndDelete
DeleteEventoEventos ==
  /\ del.pc = "eventos"
  /\ LET fuera == IF del.serie THEN SerieDe(del.idOriginal) ELSE EventoFindById(del.id)
     IN  /\ eventos' = eventos \ fuera
         /\ del' = [del EXCEPT !.pc = "recordatorios",
                               !.borrados = {e._id : e \in fuera}]
  /\ UNCHANGED <<evRecs, evCreados, evRecCreados, evOps, ultimoDelete>>

\* the evento values whose reminders deleteEvento removes (lines 362, 374)
EventosLimpiados(d) == IF d.serie THEN {d.idOriginal, d.id} ELSE {d.id}

\* lines 362-367 and 374-380: Recordatorio.deleteMany and the response
DeleteEventoRecordatorios ==
  /\ del.pc = "recordatorios"
  /\ evRecs' = {r \in evRecs : r.evento \notin EventosLimpiados(del)}
  /\ ultimoDelete' = [status |-> 200, serie |-> del.serie, borrados |-> del.borrados,
                      huerfanos |-> {r \in evRecs' : r.evento \in del.borrados}]
  /\ del' = NoDel
  /\ UNCHANGED <<eventos, evCreados, evRecCreados, evOps>>

(***************************************************************************)
(* normalizePhoneNumber on its own: a phone text, and what one and two      *)
(* applications return (sendText applies it, updateContact applies it to    *)
(* the result).                                                            *)
(***************************************************************************)
PhoneChars == {"+", "0", "5", "4", "9", " ", "-"}

RECURSIVE TextsUpTo(_)
TextsUpTo(n) ==
  IF n = 0 THEN {<<>>}
  ELSE LET shorter == TextsUpTo(n - 1)
       IN  shorter \cup {Append(t, c) : t \in {x \in shorter : Len(x) = n - 1},
                                        c \in PhoneChars}

PhoneTexts == TextsUpTo(MaxNormLen)

VARIABLES
  numero,        \* the text handed to normalizePhoneNumber
  normalizado,   \* what the application made last returned
  vueltas        \* applications made so far

normVars == <<numero, normalizado, vueltas>>

NormInit ==
  /\ numero = <<>>
  /\ normalizado = <<>>
  /\ vueltas = 0

\* sendText line 22
Normalizar(phoneNumber) ==
  /\ vueltas = 0
  /\ numero' = phoneNumber
  /\ normalizado' = normalizePhoneNumber(phoneNumber)
  /\ vueltas' = 1

\* updateContact line 573, on the number sendText normalised
NormalizarDeNuevo ==
  /\ vueltas = 1
  /\ normalizado' = normalizePhoneNumber(normalizado)
  /\ vueltas' = 2
  /\ UNCHANGED numero

(***************************************************************************)
(* The whole state.                                                        *)
(***************************************************************************)
vars == <<msgVars, recVars, httpVars, bulkVars, tplVars, gwVars, evVars, normVars>>

Init == MsgInit /\ RecInit /\ HttpInit /\ BulkInit /\ TplInit /\ GwInit /\ EvInit /\ NormInit

\* what the message service, and what the scheduler, leaves alone
FueraDeMensajes == <<recVars, httpVars, bulkVars, tplVars, gwVars, evVars, normVars>>

FueraDeRecordatorios == <<msgVars, httpVars, bulkVars, tplVars, gwVars, evVars, normVars>>

SendSpec == Init /\ [][SendNext /\ UNCHANGED FueraDeMensajes]_vars

IngestSpec == Init /\ [][IngestNext /\ UNCHANGED FueraDeMensajes]_vars

StatusSpec == Init /\ [][StatusNext /\ UNCHANGED FueraDeMensajes]_vars

\* webhook POSTs, one at a time, through the limiter and the body parser
WebhookNext ==
  \/ \E grande \in BOOLEAN : WebhookRejected(grande)
  \/ \E shape \in WebhookShapes : WebhookSinItems(shape)
  \/ \E shape \in WebhookShapes, mid \in MsgIds \cup {NoId}, from \in RawPhones,
        t \in InboundTypes, st \in ProviderStatuses \cup {""} :
       ops < MaxWebhookOps /\ WebhookItem(shape, mid, from, t, st)
  \/ WebhookRespond
  \/ LimiterWindowReset
  \/ (MsgSteps /\ UNCHANGED httpVars)

WebhookSpec == Init /\ [][WebhookNext /\ UNCHANGED <<recVars, bulkVars, tplVars, gwVars, evVars, normVars>>]_vars

\* bulk sends, one request at a time
BulkNext ==
  \/ \E kind \in {"text", "template"}, numbers \in BulkNumbers, conTexto \in BOOLEAN :
       bulkReqs < MaxBulkReqs /\ BulkRequest(kind, numbers, conTexto)
  \/ \E ok \in BOOLEAN : BulkSend(ok)
  \/ BulkThrow
  \/ BulkService
  \/ BulkCollect
  \/ BulkRespond

BulkSpec == Init /\ [][BulkNext /\ UNCHANGED <<recVars, httpVars, tplVars, gwVars, evVars, normVars>>]_vars

\* text, template and image sends with every gateway outcome
GwNext ==
  \/ \E p \in Procs, tipo \in {"text", "template", "image"}, to \in RawPhones,
        mid \in MsgIds \cup {NoId}, g \in GatewayOutcomes :
       ops < MaxGw /\ SendVia(p, tipo, to, mid, g)
  \/ (MsgSteps /\ UNCHANGED gwVars)

GwSpec == Init /\ [][GwNext /\ UNCHANGED <<recVars, httpVars, bulkVars, tplVars, evVars, normVars>>]_vars

\* events and series created, given reminders and deleted
EvNext ==
  \/ \E activa \in BOOLEAN, n \in 0..(MaxEv - 1), con \in BOOLEAN :
       evOps < MaxEvOps /\ evCreados + 1 + n <= MaxEv /\ createEvento(activa, n, con)
  \/ \E id \in 1..MaxEv : evOps < MaxEvOps /\ updateEvento(id)
  \/ \E id \in 1..MaxEv, eliminarSerie \in BOOLEAN :
       evOps < MaxEvOps /\ DeleteEventoFind(id, eliminarSerie)
  \/ DeleteEventoEventos
  \/ DeleteEventoRecordatorios

EvSpec ==
  Init /\ [][EvNext /\ UNCHANGED <<msgVars, recVars, httpVars, bulkVars, tplVars,
                                   gwVars, normVars>>]_vars

\* cron ticks one after another, with no other writer: every tick that finds
\* due reminders runs to its end, and ticks keep coming
RetryNext ==
  \/ \E body \in Solicitudes : creados < NRec /\ createRecordatorio(body)
  \/ AdvanceClock
  \/ RunFetch(1)
  \/ RunDispatch(1)
  \/ RunSave(1)

RetrySpec ==
  /\ Init
  /\ [][RetryNext /\ UNCHANGED FueraDeRecordatorios]_vars
  /\ WF_vars(RunFetch(1) /\ UNCHANGED FueraDeRecordatorios)
  /\ WF_vars(RunDispatch(1) /\ UNCHANGED FueraDeRecordatorios)
  /\ WF_vars(RunSave(1) /\ UNCHANGED FueraDeRecordatorios)

\* status reports that arrive by webhook while another handler sends
ReportNext ==
  \/ \E p \in Procs \ {1}, to \in RawPhones, mid \in MsgIds \cup {NoId}, ok \in BOOLEAN :
       ops < MaxReportOps /\ SendTextStart(p, to, mid, ok) /\ UNCHANGED httpVars
  \/ \E shape \in {"statuses", "resultsStatus"}, mid \in MsgIds \cup {NoId},
        st \in ProviderStatuses \cup {""} :
       ops < MaxReportOps /\ WebhookItem(shape, mid, <<>>, "text", st)
  \/ WebhookRespond
  \/ (MsgSteps /\ UNCHANGED httpVars)

ReportSpec ==
  Init /\ [][ReportNext /\ UNCHANGED <<recVars, bulkVars, tplVars, gwVars, evVars, normVars>>]_vars

\* normalizePhoneNumber applied to every short phone text
NormNext ==
  \/ \E t \in PhoneTexts : Normalizar(t)
  \/ NormalizarDeNuevo

NormSpec ==
  Init /\ [][NormNext /\ UNCHANGED <<msgVars, recVars, httpVars, bulkVars, tplVars,
                                     gwVars, evVars>>]_vars

\* the steps the template specifications share
TplCreate ==
  \E caller \in Callers, name \in TplNames, l \in {"L1", "none"} :
    tplCreados < MaxTpl /\ tplOps < MaxTplOps
    /\ createTemplate(caller, name, "UTILITY", "c1", l)

TplSync(listas) ==
  \/ \E ok \in BOOLEAN, lista \in listas : tplOps < MaxTplOps /\ SyncStart(ok, lista)
  \/ SyncFind
  \/ SyncWrite
  \/ SyncRespond

TplDelete ==
  \E caller \in Callers, id \in 1..MaxTpl : tplOps < MaxTplOps /\ deleteTemplate(caller, id)

FueraDePlantillas == <<msgVars, recVars, httpVars, bulkVars, gwVars, evVars, normVars>>

\* updates, with creations, deletions and syncs around them
UpdNext ==
  \/ TplCreate
  \/ \E caller \in Callers, id \in 1..MaxTpl, body \in UpdateBodies :
       tplOps < MaxTplOps /\ UpdateTemplateFind(caller, id, body)
  \/ UpdateTemplateWrite
  \/ TplDelete
  \/ TplSync(ProviderListsShort)

UpdSpec == Init /\ [][UpdNext /\ UNCHANGED FueraDePlantillas]_vars

\* deletions, with creations and syncs around them
DelNext ==
  \/ TplCreate
  \/ TplDelete
  \/ TplSync(ProviderListsShort)

DelSpec == Init /\ [][DelNext /\ UNCHANGED FueraDePlantillas]_vars

\* syncs of lists of up to two templates, with creations and deletions
SyncNext ==
  \/ TplCreate
  \/ TplDelete
  \/ TplSync(ProviderLists)

SyncSpec == Init /\ [][SyncNext /\ UNCHANGED FueraDePlantillas]_vars

(***************************************************************************)
(* Specifications of the reminder scheduler.                               *)
(***************************************************************************)
\* what every scheduler specification does: create, let time pass, run
TickSteps ==
  \/ \E body \in Solicitudes : creados < NRec /\ createRecordatorio(body)
  \/ AdvanceClock
  \/ \E r \in Runs : corridas < MaxRuns /\ RunFetch(r)
  \/ \E r \in Runs : RunDispatch(r)
  \/ \E r \in Runs : RunSave(r)

\* the scheduler alone
TickSpec == Init /\ [][TickSteps /\ UNCHANGED FueraDeRecordatorios]_vars

\* one scheduler run at a time and the requests that rewrite a reminder
CtlNext ==
  \/ \E body \in Solicitudes : creados < NRec /\ createRecordatorio(body)
  \/ AdvanceClock
  \/ corridas < MaxRunsCtl /\ RunFetch(1)
  \/ RunDispatch(1)
  \/ RunSave(1)
  \/ \E id \in RecIds, e \in EstadoEnum :
       userOps < MaxUserOps /\ updateRecordatorio(id, e)
  \/ \E id \in RecIds : userOps < MaxUserOps /\ marcarEnviado(id)

CtlSpec == Init /\ [][CtlNext /\ UNCHANGED FueraDeRecordatorios]_vars

\* one scheduler run at a time, deletions and store errors
ExcNext ==
  \/ \E body \in Solicitudes : creados < NRec /\ createRecordatorio(body)
  \/ AdvanceClock
  \/ corridas < MaxRunsExc /\ RunFetch(1)
  \/ RunDispatch(1)
  \/ RunSave(1)
  \/ \E id \in RecIds : userOps < MaxUserOps /\ deleteRecordatorio(id)
  \/ fallos < MaxFallos /\ RunSaveCaught(1)
  \/ RunSaveThrows(1)

ExcSpec == Init /\ [][ExcNext /\ UNCHANGED FueraDeRecordatorios]_vars

\* the scheduler over reminders that differ in priority and date
OrdenNext ==
  \/ \E body \in SolicitudesOrden : creados < NRecOrden /\ createRecordatorio(body)
  \/ AdvanceClock
  \/ corridas < MaxRunsOrden /\ RunFetch(1)
  \/ RunDispatch(1)
  \/ RunSave(1)

OrdenSpec == Init /\ [][OrdenNext /\ UNCHANGED FueraDeRecordatorios]_vars

(***************************************************************************)
(* Properties of the message service.                                      *)
(***************************************************************************)
MessagesWithId(m) == {d \in messages : d.messageId = m}

\* C1: once the same inbound payload has been processed two or more times,
\* one after the other, there is exactly one Message with its messageId and
\* the sender's messagesReceived has been incremented exactly once for it.
C1_IdempotentIngestion ==
  \A m \in MsgIds :
    ingestas[m] >= 2 =>
      /\ Cardinality(MessagesWithId(m)) = 1
      /\ incrementos[m] = 1

\* position of a status in the order sent < delivered < read
StatusRank(st) ==
  CASE st = "sent" -> 1
    [] st = "delivered" -> 2
    [] st = "read" -> 3
    [] OTHER -> 0

\* C2: no step moves a stored Message backward in sent < delivered < read.
C2_StatusNeverRegresses ==
  [][\A d \in messages : \A e \in messages' :
       (e._id = d._id /\ StatusRank(d.status) > 0 /\ StatusRank(e.status) > 0)
         => StatusRank(e.status) >= StatusRank(d.status)]_msgVars

\* C9: when two deliveries of the same messageId raced and both have
\* returned, one Message is stored, messagesReceived was incremented once for
\* it, and neither delivery returned an error.
C9_ConcurrentDuplicateIsNoOp ==
  \A m \in MsgIds :
    (carrera[m] /\ ingestas[m] >= 2 /\ \A p \in Procs : h[p].messageId # m) =>
      /\ Cardinality(MessagesWithId(m)) = 1
      /\ incrementos[m] = 1
      /\ fallidas[m] = 0

\* C10: no step decreases a Contact's messagesSent or messagesReceived.
C10_CountersNeverDecrease ==
  [][\A c \in contacts : \A e \in contacts' :
       e._id = c._id => /\ e.messagesSent >= c.messagesSent
                        /\ e.messagesReceived >= c.messagesReceived]_msgVars

PrioridadRank(pr) ==
  CASE pr = URGENTE -> 4
    [] pr = ALTA -> 3
    [] pr = MEDIA -> 2
    [] pr = BAJA -> 1

\* C4: the reminders a run still has to process are in order of priority
\* (URGENTE, ALTA, MEDIA, BAJA) and, within a priority, of fechaProgramada.
C4_PriorityOrder ==
  \A r \in Runs : \A i, j \in DOMAIN run[r].lote :
    i < j =>
      LET a == run[r].lote[i]
          b == run[r].lote[j]
      IN  \/ PrioridadRank(a.prioridad) > PrioridadRank(b.prioridad)
          \/ /\ a.prioridad = b.prioridad
             /\ a.fechaProgramada <= b.fechaProgramada

\* C5: a reminder for [A, B] whose last saved attempt met a failing channel
\* for A and a working one for B is ENVIADO, B is notified, A is not, and
\* mensajeError is set.
C5_PartialFailureIsolated ==
  \A d \in recordatorios :
    ultimoEnvio[d._id] = <<"fail", "ok">> =>
      /\ d.estado = "ENVIADO"
      /\ d.destinatarios[2].notificado
      /\ ~d.destinatarios[1].notificado
      /\ d.mensajeError # "none"

\* C6: the estado of a reminder changes only from PENDIENTE.
C6_TerminalStatesFinal ==
  [][\A d \in recordatorios : \A e \in recordatorios' :
       (e._id = d._id /\ e.estado # d.estado) => d.estado = "PENDIENTE"]_vars

\* C7: intentos never exceeds the retry limit and no step decreases it.
C7_IntentosCapped ==
  [][\A d \in recordatorios : \A e \in recordatorios' :
       e._id = d._id => /\ e.intentos >= d.intentos
                        /\ e.intentos <= MaxIntentos]_vars

\* C8: an exception raised while a reminder is processed leaves no reminder
\* of the batch unprocessed, and the reminder is saved as FALLIDO with the
\* exception's message.
C8_BatchSurvivesException ==
  /\ perdidos = {}
  /\ (excepcion.id # 0 /\ excepcion.mensaje # "DocumentNotFoundError")
       => excepcion.guardado

\* C11: a stored Message becomes failed only from sent or delivered, and a
\* failed Message keeps that status in every later step.
C11_FailedIsTerminal ==
  [][\A d \in messages : \A e \in messages' :
       e._id = d._id =>
         /\ (e.status = "failed" /\ d.status # "failed")
              => d.status \in {"sent", "delivered"}
         /\ d.status = "failed" => e.status = "failed"]_msgVars

\* C12: every webhook POST is answered with status 200 and an
\* acknowledgement body.
C12_WebhookAlways200 ==
  respuesta # NoRespuesta =>
    /\ respuesta.status = 200
    /\ respuesta.body \in {"received", "error"}

(***************************************************************************)
(* Properties of the bulk sends.                                           *)
(***************************************************************************)
\* C13: a bulk request with more than 100 recipients is answered 400 at once:
\* no gateway call is made for it and no Message or Contact is written.
C13_BulkCapRejects ==
  Len(bulk.numbers) > BulkCap =>
    /\ bulk.pc = "idle"
    /\ bulk.status = 400
    /\ bulk.llamadas = 0
    /\ bulk.escrituras = 0
    /\ bulk.results = <<>>

\* C13 witness: a request with 101 recipients was rejected after an earlier
\* request had stored a Message
C13_Witness ==
  /\ Len(bulk.numbers) = BulkCap + 1
  /\ bulk.status = 400
  /\ messages # {}

\* C14: an accepted bulk request attempts its recipients in request order,
\* one result entry per recipient attempted, a failure never ending the loop;
\* when it is answered there is one entry per recipient and
\* successCount + failCount is the number of recipients.
C14_BulkSequential ==
  (bulk.kind # "none" /\ bulk.status # 400) =>
    /\ Len(bulk.results) = bulk.pos - 1
    /\ Len(bulk.orden) = IF bulk.pc = "await" THEN bulk.pos ELSE bulk.pos - 1
    /\ \A i \in DOMAIN bulk.orden : bulk.orden[i] = bulk.numbers[i]
    /\ \A i \in DOMAIN bulk.results : bulk.results[i].to = bulk.numbers[i]
    /\ bulk.successCount + bulk.failCount = Len(bulk.results)
    /\ bulk.status = 200 =>
         /\ Len(bulk.results) = Len(bulk.numbers)
         /\ bulk.orden = bulk.numbers

\* C14 witness: an answered request whose first recipient failed and whose
\* second recipient was sent and stored
C14_Witness ==
  /\ bulk.status = 200
  /\ Len(bulk.numbers) = 2
  /\ ~bulk.results[1].success
  /\ bulk.results[2].success

\* C15: an update of a template that was APPROVED when the handler read it is
\* rejected and leaves it as it was when the body changes the name; when it
\* keeps the name, carries valid components or a category and the caller may
\* edit the template, it is answered 200 and the handler's write leaves the
\* template PENDING (or finds it deleted meanwhile), whatever body.status says.
C15_ApprovedRenameGuard ==
  ultimaAct.eraAprobada =>
    /\ ultimaAct.cambiaNombre =>
         /\ ultimaAct.status \in {400, 403}
         /\ ultimaAct.intacta
    /\ (~ultimaAct.cambiaNombre /\ ultimaAct.conContenido /\ ultimaAct.valido
        /\ ultimaAct.status # 403) =>
         /\ ultimaAct.status = 200
         /\ ultimaAct.queda \in {"PENDING", "gone"}

\* an APPROVED template was edited with a body that asked for APPROVED, and a
\* rename of an APPROVED template was turned down with 400
C15_Witness ==
  /\ ultimaAct.eraAprobada
  /\ ~ultimaAct.cambiaNombre
  /\ ultimaAct.conContenido
  /\ ultimaAct.status = 200
  /\ ultimaAct.queda = "PENDING"
  /\ \E t \in templates : t.status = "PENDING" /\ t.components = "c2"

\* C16: a deletion of a template that was APPROVED is never answered 200 and
\* the template stays in the registry, for admin and superAdmin callers.
C16_ApprovedNotDeleted ==
  ultimoBorrado.eraAprobada => (ultimoBorrado.status # 200 /\ ultimoBorrado.queda)

\* C18: when a sync has answered 200, every template of the provider's list has
\* exactly one local template of its name and language, with the status the
\* provider reported and, when REJECTED, a rejection reason.
C18_SyncMirrorsProvider ==
  syncHecha.status = 200 =>
    \A i \in 1..Len(syncHecha.lista) :
      LET prov == syncHecha.lista[i]
          mias == {t \in syncHecha.locales : t.name = prov.name /\ t.language = "es"}
      IN  /\ Cardinality(mias) = 1
          /\ \A t \in mias :
               /\ t.status = prov.status
               /\ t.status = "REJECTED" => t.rejectionReason # Ausente

\* C17: the step in which a handler starts a send (text, template or image)
\* whose gateway call does not succeed leaves the Message and Contact
\* collections as they were, returns a failure result and leaves the handler
\* with nothing more to do (no Message.create, no updateContact to come); when
\* the credentials are missing no post is made.
C17_GatewayFailureLeavesNoTrace ==
  [][\A p \in Procs :
       (gw'[p].n = gw[p].n + 1 /\ gw'[p].res # "ok") =>
         /\ messages' = messages
         /\ contacts' = contacts
         /\ retorno'.success = FALSE
         /\ retorno'.op \in {"sendText", "sendTemplate", "sendImage"}
         /\ h'[p] = Idle
         /\ gw'[p].res = "sinCredenciales" => red' = red]_vars

\* a template send failed for want of credentials while Messages and Contacts
\* of earlier sends are in the store
C17_Witness ==
  /\ \E p \in Procs : gw[p].res = "sinCredenciales"
  /\ retorno.op = "sendTemplate"
  /\ ~retorno.success
  /\ messages # {}
  /\ contacts # {}
  /\ red = 1

\* C19: when deleteEvento has answered 200, for one event or for a whole
\* series, no reminder is left whose evento is one of the events it deleted.
C19_NoReminderOfDeletedEvent ==
  ultimoDelete.status = 200 => ultimoDelete.huerfanos = {}

C21_RetryUntilTerminal ==
  /\ [](\A d \in recordatorios :
          d.estado = "PENDIENTE" =>
            /\ d.intentos = despachos[d._id]
            /\ despachos[d._id] < MaxIntentos)
  /\ \A id \in RecIds :
       (\E d \in recordatorios :
          d._id = id /\ d.estado = "PENDIENTE" /\ d.fechaProgramada <= ahora)
       ~> (\E d \in recordatorios :
             d._id = id /\ d.estado \in {"ENVIADO", "FALLIDO"})

\* a reminder failed three ticks in a row and is FALLIDO, another was sent
C21_Witness ==
  /\ \E d \in recordatorios :
       d.estado = "FALLIDO" /\ d.intentos = MaxIntentos /\ despachos[d._id] = MaxIntentos
  /\ \E d \in recordatorios : d.estado = "ENVIADO" /\ despachos[d._id] = 1

\* C22: a status report whose status string is none of delivered, seen, read,
\* failed, rejected leaves every stored Message as it was.
C22_UnknownStatusIsNoOp ==
  [][\A mid \in MsgIds, st \in ProviderStatuses :
       (/\ ToLowerCase(st) \notin {"delivered", "seen", "read", "failed", "rejected"}
        /\ processStatusNotification(1, mid, st))
         => messages' = messages]_vars

\* C23: the webhook step that hands over a status report whose messageId
\* matches no stored Message leaves the Message and Contact collections as
\* they were and returns "Mensaje no encontrado" as a failure result; the
\* request that carried it is then answered 200 received.
C23_UnknownIdReportIsHarmless ==
  [][/\ \A shape \in {"statuses", "resultsStatus"}, mid \in MsgIds,
           st \in ProviderStatuses :
          (MessageFindOne(mid) = {} /\ WebhookItem(shape, mid, <<>>, "text", st)) =>
            /\ messages' = messages
            /\ contacts' = contacts
            /\ retorno' = Ret("status", mid, FALSE, "Mensaje no encontrado")
            /\ webhook' = "awaiting"
     /\ (webhook = "awaiting" /\ webhook' = "idle"
         /\ retorno.nota = "Mensaje no encontrado") =>
          respuesta' = [status |-> 200, body |-> "received"]]_vars

\* a report for an unknown id was answered while a Message and a Contact of an
\* earlier send are in the store
C23_Witness ==
  /\ retorno.op = "status"
  /\ retorno.nota = "Mensaje no encontrado"
  /\ webhook = "idle"
  /\ respuesta.status = 200
  /\ messages # {}
  /\ contacts # {}

RECURSIVE SumSent(_)
SumSent(S) ==
  IF S = {} THEN 0
  ELSE LET c == CHOOSE x \in S : TRUE
       IN  c.messagesSent + SumSent(S \ {c})

\* C25: a send that the gateway accepted returns success and leaves exactly one
\* outbound Message with status sent under its messageId; and when no send is
\* in progress the messagesSent counters add up to one per such Message.
C25_AcceptedSendIsBooked ==
  [][/\ \A p \in Procs :
          (h[p].op \in {"sendText", "sendTemplate", "sendImage"} /\ h'[p].op = "idle") =>
            /\ retorno'.success
            /\ Cardinality({m \in messages' :
                              /\ m.messageId = h[p].messageId
                              /\ m.direction = "outbound"
                              /\ m.status = "sent"}) = 1
     /\ (\A p \in Procs : h'[p].op = "idle") =>
          SumSent(contacts') = Cardinality({m \in messages' : m.direction = "outbound"})]_vars

\* the text without whitespace, parentheses and hyphens
C26_Stripped(t) == SelectSeq(t, LAMBDA c : c \notin {" ", "-", "(", ")"})

\* the result the four rules give for a text
C26_Expected(t) ==
  LET s == C26_Stripped(t)
  IN  IF s # <<>> /\ s[1] = "+" THEN SubSeq(s, 2, Len(s))
      ELSE IF Len(s) >= 2 /\ s[1] = "0" /\ s[2] = "0" THEN SubSeq(s, 3, Len(s))
      ELSE IF s # <<>> /\ s[1] = "0" THEN <<"5", "4">> \o SubSeq(s, 2, Len(s))
      ELSE <<"5", "4">> \o s

\* C26: normalizePhoneNumber returns, for every text, what the four rules give
\* (after '+', after '00', country code for a leading '0', country code
\* prepended otherwise), and the result never starts with '+'.
C26_NormalizeRules ==
  vueltas = 1 =>
    /\ normalizado = C26_Expected(numero)
    /\ (normalizado = <<>> \/ normalizado[1] # "+")

\* C27: sends that carry the same caller-supplied messageId leave at most one
\* Message with that messageId and add to the recipient Contact's messagesSent
\* at most once, however many of them the gateway accepts.
C27_SameIdBookedOnce ==
  \A m \in MsgIds :
    /\ Cardinality(MessagesWithId(m)) <= 1
    /\ sumados[m] <= 1

\* two sends with the same messageId were accepted by the gateway: one stored
\* its Message and incremented the Contact, the other was turned away by the
\* unique index
C27_Witness ==
  \E m \in MsgIds :
    /\ retorno = Ret("sendText", m, FALSE, "E11000")
    /\ \E d \in MessagesWithId(m) : d.direction = "outbound"
    /\ sumados[m] = 1
    /\ \E c \in contacts : c.messagesSent = 1

\* C28: the number updateContact looks the Contact up by, which is the
\* normalisation of the number sendText normalised and stored on the Message,
\* is that stored number: normalising a normalised number changes nothing.
C28_NormalizeIdempotent ==
  vueltas = 2 => normalizado = normalizePhoneNumber(numero)

\* the reminder the run is working on is stored as CANCELADO
C29_CanceladoEnCurso(id) ==
  /\ run[1].pc \in {"dispatch", "save"}
  /\ Head(run[1].lote)._id = id
  /\ \E d \in recordatorios : d._id = id /\ d.estado = "CANCELADO"

\* C29: a reminder that a user set to CANCELADO after the run fetched its batch
\* and before the run reached it is not dispatched by the run, and the run
\* leaves its estado CANCELADO.
C29_CancelBeatsFetchedBatch ==
  [][\A id \in RecIds :
       (C29_CanceladoEnCurso(id) /\ run' # run) =>
         /\ run[1].pc = "dispatch" => run'[1].pc # "save"
         /\ \E d \in recordatorios' : d._id = id /\ d.estado = "CANCELADO"]_vars

\* the templates that are APPROVED, by _id
C30_Aprobadas(T) == {t._id : t \in {x \in T : x.status = "APPROVED"}}

\* C30: createTemplate and updateTemplate never make a template APPROVED: a
\* template becomes APPROVED only in a step of syncTemplates.
C30_ApprovedOnlyBySync ==
  [][C30_Aprobadas(templates') \subseteq C30_Aprobadas(templates) \/ sync' # sync]_vars

====
